---- MODULE Spec2Model ----
(***************************************************************************)
(* Campaign orchestration of the AI sales agent dashboard                  *)
(* (ai-sales-agent/src/web_interface.py) over the customer record store    *)
(* (ai-sales-agent/src/customer_manager.py).                               *)
(*                                                                         *)
(* The FastAPI handlers are coroutines on one asyncio event loop.  A       *)
(* handler without an await in its body (start_campaign, stop_campaign,    *)
(* add_customer) is one atomic action.  run_campaign is a coroutine too;   *)
(* it gives the loop away at its two awaits (the contact attempt and the   *)
(* inter-attempt sleep), so every stretch of its code between two awaits   *)
(* is one atomic action.                                                   *)
(*                                                                         *)
(* Spec, RaisingSpec and FairSpec are the dashboard.  StoreSpec, QueueSpec *)
(* and ClassifySpec call the record store, the queue builder and the       *)
(* outcome classifier (ai-sales-agent/src/sales_agent.py) directly, on     *)
(* the inputs a caller of those methods can pass.                          *)
(***************************************************************************)
EXTENDS Integers, Sequences, FiniteSets, TLC

\* ------------------------------------------------------------- bounds
\* number of start requests the model accepts (one background run each)
MaxCampaigns == 2
\* largest delay_between_calls a start request carries, in clock ticks
MaxDelay == 1
\* largest max_calls a start request carries
MaxCalls == 2

\* largest number of phrases in a reply given to the classifier
MaxPhrases == 2
\* last reading of the clock
MaxTime == 2

\* phone numbers of the customers that can be registered
Phones == {"p1", "p2"}
\* values of prioritize_by a start request carries
PriorityKeys == {"new", "interested", "contacted"}
\* the values of customers.status the code names
Statuses == {"new", "contacted", "interested", "not_interested", "callback_requested",
             "sold", "do_not_call"}
\* values of Customer.notes and of the notes argument of update_customer_status
Notes == {"", "asked for a quote"}
\* identities of the background runs: the n-th accepted start schedules run n
Runs == 1..MaxCampaigns

\* ------------------------------------------------------------- values
\* current_campaign = None
None == [none |-> TRUE]
\* a campaign dict without the "end_time" key
NoTime == "absent"
\* the value datetime.now().isoformat() stored under "end_time"
Recorded == "recorded"

\* last_contact = None (NULL in the table); the times the clock reads are >= 0
NullTime == -1

\* CallOutcome values a contact attempt returns
Outcomes == {"sample_requested", "not_interested", "callback", "interested", "error"}

\* ------------------------------------------------------------- state
VARIABLES
    db,                \* customers table, in rowid order: <<[phone, status, notes,
                       \*   last_contact, created_at, updated_at]>>
    current_campaign,  \* the global current_campaign: None or the campaign dict
    campaign_results,  \* the global campaign_results list
    task,              \* per run: the frame of its run_campaign coroutine
                       \*   pc: where it stands, i: the index of enumerate(customers),
                       \*   remaining: ticks left of asyncio.sleep(delay),
                       \*   customers, delay: the arguments of run_campaign
    nstarted,          \* number of accepted starts so far
    stopSeen,          \* per run: stop() was called while its campaign was running
    response,          \* the last HTTP response a handler produced
    now,               \* the clock datetime.now() reads, in ticks
    call,              \* the last call made on the library directly: its name,
                       \* its arguments and the value it returned
    call_history       \* call_history table, in rowid order

vars == <<db, current_campaign, campaign_results, task, nstarted, stopSeen, response,
          now, call, call_history>>

\* ------------------------------------------------ customer_manager.py
\* SELECT * FROM customers WHERE status = ?  (rows come back in rowid order)
GetCustomersByStatus(store, status) ==
    SelectSeq(store, LAMBDA c : c.status = status)

\* the UNIQUE constraint on customers.phone
HasPhone(store, phone) == \E k \in 1..Len(store) : store[k].phone = phone

\* a customers table without the UNIQUE constraint
AddCustomerOk_NoUnique(store, phone) == TRUE

\* CustomerManager.add_customer: the INSERT, refused by the UNIQUE constraint
AddCustomerOk(store, phone) == ~HasPhone(store, phone)

\* the row the INSERT writes for Customer(phone=phone, status=status,
\* notes=notes): last_contact keeps the dataclass default None, created_at and
\* updated_at are both set to the same now
NewRow(phone, status, notes, t) ==
    [phone |-> phone, status |-> status, notes |-> notes, last_contact |-> NullTime,
     created_at |-> t, updated_at |-> t]

AddCustomerStore(store, phone, status, notes, t) ==
    IF AddCustomerOk(store, phone)
    THEN Append(store, NewRow(phone, status, notes, t))
    ELSE store

\* an UPDATE that leaves last_contact as it was
UpdateCustomerStatus_KeepLastContact(store, phone, status, notes, t) ==
    [k \in 1..Len(store) |->
        IF store[k].phone = phone
        THEN [store[k] EXCEPT !.status = status, !.notes = notes, !.updated_at = t]
        ELSE store[k]]

\* CustomerManager.update_customer_status: UPDATE ... WHERE phone = ?
UpdateCustomerStatus(store, phone, status, notes, t) ==
    [k \in 1..Len(store) |->
        IF store[k].phone = phone
        THEN [store[k] EXCEPT !.status = status, !.notes = notes,
                              !.last_contact = t, !.updated_at = t]
        ELSE store[k]]

\* a log that keeps one row per customer: the row of the last call
LogCallHistory_LastCallOnly(history, phone, outcome, notes, follow_up_needed, t) ==
    Append(SelectSeq(history, LAMBDA h : h.customer_phone # phone),
           [customer_phone |-> phone, call_date |-> t, outcome |-> outcome,
            notes |-> notes, follow_up_needed |-> follow_up_needed])

\* CustomerManager.log_call_history: INSERT INTO call_history; duration,
\* follow_up_date and agent_name are the same in every row the campaign writes
LogCallHistory(history, phone, outcome, notes, follow_up_needed, t) ==
    Append(history,
           [customer_phone |-> phone, call_date |-> t, outcome |-> outcome,
            notes |-> notes, follow_up_needed |-> follow_up_needed])

\* CustomerManager.get_stats; no call is older than 7 days
GetStats(store, history) ==
    [total_customers |-> Len(store),
     status_breakdown |->
        [status \in {store[k].status : k \in 1..Len(store)} |->
            Cardinality({k \in 1..Len(store) : store[k].status = status})],
     recent_calls_7_days |-> Len(history)]

\* a priority table that ranks interested customers before new ones
StatusPriority_InterestedFirst(status) ==
    CASE status = "interested" -> 1
      [] status = "new" -> 2
      [] status = "callback_requested" -> 3
      [] status = "contacted" -> 4
      [] OTHER -> 99

\* status_priority.get(c.status, 99)
StatusPriority(status) ==
    CASE status = "new" -> 1
      [] status = "interested" -> 2
      [] status = "callback_requested" -> 3
      [] status = "contacted" -> 4
      [] OTHER -> 99

\* the keys all_customers.sort can see, ascending
PriorityValues == <<1, 2, 3, 4, 99>>

RECURSIVE ConcatByPriority(_, _)
ConcatByPriority(s, k) ==
    IF k > Len(PriorityValues) THEN <<>>
    ELSE SelectSeq(s, LAMBDA c : StatusPriority(c.status) = PriorityValues[k])
         \o ConcatByPriority(s, k + 1)

\* all_customers.sort(key=...): list.sort is stable, so the result is the
\* elements of each key in their former order, the keys ascending
SortByPriority(s) == ConcatByPriority(s, 1)

\* the Python slice s[:n], for n of either sign
PySliceTo(s, n) ==
    IF n >= 0 THEN SubSeq(s, 1, IF n < Len(s) THEN n ELSE Len(s))
    ELSE SubSeq(s, 1, IF Len(s) + n > 0 THEN Len(s) + n ELSE 0)

\* a queue builder that selects the new customers twice
TargetStatuses_NewTwice(prioritize_by) ==
    IF prioritize_by = "new" THEN <<"new", "interested", "callback_requested", "new">>
    ELSE <<prioritize_by>>

\* a queue builder that ignores prioritize_by
TargetStatuses_AlwaysDefault(prioritize_by) ==
    <<"new", "interested", "callback_requested">>

TargetStatuses(prioritize_by) ==
    IF prioritize_by = "new" THEN <<"new", "interested", "callback_requested">>
    ELSE <<prioritize_by>>

RECURSIVE ExtendAll(_, _, _)
ExtendAll(store, statuses, k) ==
    IF k > Len(statuses) THEN <<>>
    ELSE GetCustomersByStatus(store, statuses[k]) \o ExtendAll(store, statuses, k + 1)

\* CustomerManager.get_calling_queue
GetCallingQueue(store, max_calls, prioritize_by) ==
    PySliceTo(SortByPriority(ExtendAll(store, TargetStatuses(prioritize_by), 1)),
              max_calls)

\* --------------------------------------------------- web_interface.py
\* a mapping that stores interested for the outcome interested as well
StatusForOutcome_InterestedKept(outcome) ==
    IF outcome \in {"sample_requested", "interested"} THEN "interested"
    ELSE IF outcome = "not_interested" THEN "not_interested"
    ELSE "contacted"

\* a mapping that files a callback under callback_requested
StatusForOutcome_CallbackRequested(outcome) ==
    IF outcome = "sample_requested" THEN "interested"
    ELSE IF outcome = "not_interested" THEN "not_interested"
    ELSE IF outcome = "callback" THEN "callback_requested"
    ELSE "contacted"

\* the status run_campaign stores for an attempt's outcome
StatusForOutcome(outcome) ==
    IF outcome = "sample_requested" THEN "interested"
    ELSE IF outcome = "not_interested" THEN "not_interested"
    ELSE "contacted"

\* the notes of an attempt's result: the classifier's note for its outcome,
\* or the text the except blocks build
NotesFor(outcome) ==
    CASE outcome = "sample_requested" -> "Customer interested in samples"
      [] outcome = "not_interested" -> "Customer not interested at this time"
      [] outcome = "callback" -> "Customer requested callback"
      [] outcome = "interested" -> "Customer showed interest, needs follow-up"
      [] OTHER -> "Call failed"

\* make_sales_call: follow_up_needed of its result
FollowUpNeeded(outcome) == outcome \in {"interested", "callback", "sample_requested"}

\* start_campaign without its guard
AlreadyRunning_Unchecked(c) == FALSE

\* the guard of start_campaign
AlreadyRunning(c) == c # None /\ c.running

\* start_campaign without its check of the queue
NoCustomers_Unchecked(queue) == FALSE

\* "if not customers": the queue builder found nobody to call
NoCustomers(queue) == queue = <<>>

\* a start that leaves the flag to be raised by the background run
NewCampaign_FlagNotSet(queue, n) ==
    [running |-> FALSE, total |-> Len(queue), completed |-> 0,
     start_time |-> n, end_time |-> "absent", customers |-> queue]

\* the dict start_campaign builds; start_time is the ordinal of the accepted
\* start, standing for datetime.now() read at that moment
NewCampaign(queue, n) ==
    [running |-> TRUE, total |-> Len(queue), completed |-> 0,
     start_time |-> n, end_time |-> NoTime, customers |-> queue]

\* a stop that flips the flag instead of clearing it
StopCampaignDict_Toggle(c) ==
    IF c # None THEN [c EXCEPT !.running = ~c.running] ELSE c

\* stop_campaign's effect on current_campaign
StopCampaignDict(c) == IF c # None THEN [c EXCEPT !.running = FALSE] ELSE c

\* get_campaign_status
IdleSnapshot == [running |-> FALSE, total |-> 0, completed |-> 0]

GetCampaignStatus(c) ==
    IF c = None THEN IdleSnapshot
    ELSE [running |-> c.running, total |-> c.total, completed |-> c.completed,
          start_time |-> c.start_time]

\* an end of run_campaign that forgets end_time
MarkCompleted_NoEndTime(c) ==
    IF c # None THEN [c EXCEPT !.running = FALSE] ELSE c

\* the end of run_campaign: "Mark campaign as completed"
MarkCompleted(c) ==
    IF c # None THEN [c EXCEPT !.running = FALSE, !.end_time = Recorded] ELSE c

\* no call was made on the library directly
NoCall == [op |-> "none"]

NoResponse == [op |-> "none", status |-> 0, detail |-> ""]
Ok(op, detail) == [op |-> op, status |-> 200, detail |-> detail]
BadRequest(op, detail) == [op |-> op, status |-> 400, detail |-> detail]

\* a background task that was never added
Unscheduled == [pc |-> "unscheduled", i |-> 0, remaining |-> 0, customers |-> <<>>,
                delay |-> 0]
\* background_tasks.add_task(run_campaign, customers, delay)
Scheduled(queue, d) == [pc |-> "scheduled", i |-> 0, remaining |-> 0,
                        customers |-> queue, delay |-> d]
\* run_campaign has returned: its frame is gone; i keeps the number of loop
\* iterations it began
Returned(j) == [pc |-> "done", i |-> j, remaining |-> 0, customers |-> <<>>,
                delay |-> 0]

Init ==
    /\ db = <<>>
    /\ current_campaign = None
    /\ campaign_results = <<>>
    /\ task = [r \in Runs |-> Unscheduled]
    /\ nstarted = 0
    /\ stopSeen = [r \in Runs |-> FALSE]
    /\ response = NoResponse
    /\ now = 0
    /\ call = NoCall
    /\ call_history = <<>>

\* POST /api/customers
AddCustomer(phone) ==
    /\ db' = AddCustomerStore(db, phone, "new", "", now)
    /\ response' = IF AddCustomerOk(db, phone)
                   THEN Ok("add", "Customer added successfully")
                   ELSE BadRequest("add", "Customer with this phone number already exists")
    /\ UNCHANGED <<call_history, now, call, current_campaign, campaign_results, task,
                   nstarted, stopSeen>>

\* POST /api/campaign/start
StartCampaign(max_calls, prioritize_by, d) ==
    LET queue == GetCallingQueue(db, max_calls, prioritize_by)
        n == nstarted + 1
    IN  IF AlreadyRunning(current_campaign)
        THEN /\ response' = BadRequest("start", "Campaign already running")
             /\ UNCHANGED <<call_history, now, call, db, current_campaign, campaign_results, task, nstarted,
                            stopSeen>>
        ELSE IF NoCustomers(queue)
        THEN /\ response' = BadRequest("start", "No customers found to call")
             /\ UNCHANGED <<call_history, now, call, db, current_campaign, campaign_results, task, nstarted,
                            stopSeen>>
        ELSE /\ nstarted < MaxCampaigns
             /\ current_campaign' = NewCampaign(queue, n)
             /\ campaign_results' = <<>>
             /\ task' = [task EXCEPT ![n] = Scheduled(queue, d)]
             /\ nstarted' = n
             /\ response' = Ok("start", "Campaign started")
             /\ UNCHANGED <<call_history, now, call, db, stopSeen>>

\* POST /api/campaign/stop
StopCampaign ==
    /\ current_campaign' = StopCampaignDict(current_campaign)
    /\ stopSeen' = IF AlreadyRunning(current_campaign)
                   THEN [stopSeen EXCEPT ![current_campaign.start_time] = TRUE]
                   ELSE stopSeen
    /\ response' = Ok("stop", "Campaign stopped")
    /\ UNCHANGED <<call_history, now, call, db, campaign_results, task, nstarted>>

\* a loop that leaves out the last customer of the queue
Continues_SkipLast(t, j, c) == j < Len(t.customers) - 1 /\ c.running

\* the head of run_campaign's for loop, reached with index j while the current
\* campaign is c: another iteration is made if the queue has a j-th customer
\* and the running flag is true
Continues(t, j, c) == j < Len(t.customers) /\ c.running

\* run_campaign, its frame being t, arriving at the head of its for loop: it
\* begins the next
\* attempt, or the loop ends (queue exhausted, or break) and the campaign is
\* marked completed before the coroutine returns
EnterIteration(r, t, j, c) ==
    IF Continues(t, j, c)
    THEN /\ task' = [task EXCEPT ![r] = [t EXCEPT !.pc = "calling", !.i = j]]
         /\ current_campaign' = c
    ELSE /\ task' = [task EXCEPT ![r] = Returned(j)]
         /\ current_campaign' = MarkCompleted(c)

\* the background task starts: run_campaign up to its first await
RunBegin(r) ==
    /\ task[r].pc = "scheduled"
    /\ EnterIteration(r, task[r], 0, current_campaign)
    /\ UNCHANGED <<call_history, now, call, db, campaign_results, nstarted, stopSeen, response>>

\* the wait between calls: "if i < len(customers) - 1 and running"
WaitsAfter(t, c) == t.i < Len(t.customers) - 1 /\ c.running

\* make_sales_call marks the Customer object it was given: "customer.status =
\* 'contacted'" and its last_contact.  The object is the k-th element of the list run_campaign
\* iterates, which is also the "customers" list of the campaign that start
\* created together with this run
Contacted(queue, k, t) ==
    [queue EXCEPT ![k].status = "contacted", ![k].last_contact = t]

\* the dict make_sales_call returns for an attempt with this outcome
CallResult(customer, outcome) ==
    [phone |-> customer.phone, outcome |-> outcome,
     follow_up_needed |-> FollowUpNeeded(outcome)]

\* a run that keeps no result of an attempt that failed
RecordResult_DropErrors(results, customer, outcome) ==
    IF outcome = "error" THEN results
    ELSE Append(results, CallResult(customer, outcome))

\* campaign_results.append(result)
RecordResult(results, customer, outcome) ==
    Append(results, CallResult(customer, outcome))

\* a run that gives up at the first attempt that returns an error
AttemptReturn_AbortOnError(r, outcome) ==
    /\ task[r].pc = "calling"
    /\ LET customer == task[r].customers[task[r].i + 1]
           t == [task[r] EXCEPT !.customers = Contacted(@, task[r].i + 1, now)]
           c == [current_campaign EXCEPT
                    !.customers = IF current_campaign.start_time = r
                                  THEN t.customers ELSE @,
                    !.completed = t.i + 1]
       IN  /\ campaign_results' = RecordResult(campaign_results, customer, outcome)
           /\ db' = UpdateCustomerStatus(db, customer.phone, StatusForOutcome(outcome),
                                          NotesFor(outcome), now)
           /\ call_history' = LogCallHistory(call_history, customer.phone, outcome,
                                             NotesFor(outcome), FollowUpNeeded(outcome),
                                             now)
           /\ IF outcome = "error"
              THEN /\ task' = [task EXCEPT ![r] = Returned(t.i + 1)]
                   /\ current_campaign' = MarkCompleted(c)
              ELSE IF WaitsAfter(t, c)
              THEN /\ task' = [task EXCEPT ![r] =
                                  [t EXCEPT !.pc = "sleeping", !.remaining = t.delay]]
                   /\ current_campaign' = c
              ELSE EnterIteration(r, t, t.i + 1, c)
    /\ UNCHANGED <<now, call, nstarted, stopSeen, response>>

\* make_sales_call returns a result: the rest of the try block
AttemptReturn(r, outcome) ==
    /\ task[r].pc = "calling"
    /\ LET customer == task[r].customers[task[r].i + 1]
           t == [task[r] EXCEPT !.customers = Contacted(@, task[r].i + 1, now)]
           c == [current_campaign EXCEPT
                    !.customers = IF current_campaign.start_time = r
                                  THEN t.customers ELSE @,
                    !.completed = t.i + 1]
       IN  /\ campaign_results' = RecordResult(campaign_results, customer, outcome)
           /\ db' = UpdateCustomerStatus(db, customer.phone, StatusForOutcome(outcome),
                                          NotesFor(outcome), now)
           /\ call_history' = LogCallHistory(call_history, customer.phone, outcome,
                                             NotesFor(outcome), FollowUpNeeded(outcome),
                                             now)
           /\ IF WaitsAfter(t, c)
              THEN /\ task' = [task EXCEPT ![r] =
                                  [t EXCEPT !.pc = "sleeping", !.remaining = t.delay]]
                   /\ current_campaign' = c
              ELSE EnterIteration(r, t, t.i + 1, c)
    /\ UNCHANGED <<now, call, nstarted, stopSeen, response>>

\* an exception leaves the try block: the except block, then the next
\* iteration.  Nothing the try block calls lets an Exception out:
\* make_sales_call, update_customer_status and log_call_history each catch
\* Exception themselves (sales_agent.py 220, customer_manager.py 167 and 194),
\* so this step is no part of Next; RaisingSpec adds it, for a contact
\* placement that raises
AttemptRaise(r) ==
    /\ task[r].pc = "calling"
    /\ EnterIteration(r, task[r], task[r].i + 1, current_campaign)
    /\ UNCHANGED <<call_history, now, call, db, campaign_results, nstarted, stopSeen, response>>

\* one tick of asyncio.sleep(delay) passes
Tick(r) ==
    /\ task[r].pc = "sleeping"
    /\ task[r].remaining > 0
    /\ task' = [task EXCEPT ![r] = [task[r] EXCEPT !.remaining = task[r].remaining - 1]]
    /\ UNCHANGED <<call_history, now, call, db, current_campaign, campaign_results, nstarted, stopSeen,
                   response>>

\* asyncio.sleep(delay) returns: the next iteration
Wake(r) ==
    /\ task[r].pc = "sleeping"
    /\ task[r].remaining = 0
    /\ EnterIteration(r, task[r], task[r].i + 1, current_campaign)
    /\ UNCHANGED <<call_history, now, call, db, campaign_results, nstarted, stopSeen, response>>

RunStep(r) ==
    \/ RunBegin(r)
    \/ \E outcome \in Outcomes : AttemptReturn(r, outcome)
    \/ Tick(r)
    \/ Wake(r)

Next ==
    \/ \E phone \in Phones : AddCustomer(phone)
    \/ \E max_calls \in 0..MaxCalls, prioritize_by \in PriorityKeys, d \in 0..MaxDelay :
          StartCampaign(max_calls, prioritize_by, d)
    \/ StopCampaign
    \/ \E r \in Runs : RunStep(r)

Spec == Init /\ [][Next]_vars

\* the program with a contact placement that may raise
RaisingNext ==
    \/ Next
    \/ \E r \in Runs : AttemptRaise(r)

RaisingSpec == Init /\ [][RaisingNext]_vars

\* the background run is scheduled fairly: each of its steps that stays
\* possible (the attempt returning, the sleep ticking and ending) is taken
FairSpec == Spec /\ \A r \in Runs : WF_vars(RunStep(r))

\* ------------------------------------------------- the end-to-end run
\* the customers of the end-to-end scenario, in the order they are registered
ScenarioPhones == <<"p1", "p2", "p3">>

\* the steps of a run whose delay is 0: its sleep has no tick to wait for
ScenarioRunStep(r) ==
    \/ RunBegin(r)
    \/ \E outcome \in Outcomes : AttemptReturn(r, outcome)
    \/ Wake(r)

\* the customers are registered one after the other; with all of them in the
\* store, campaigns are started with max_calls = 3, the default key and
\* delay = 0, and never stopped
ScenarioNext ==
    \/ \E k \in 1..Len(ScenarioPhones) :
          /\ Len(db) = k - 1
          /\ AddCustomer(ScenarioPhones[k])
    \/ /\ Len(db) = Len(ScenarioPhones)
       /\ StartCampaign(Len(ScenarioPhones), "new", 0)
    \/ \E r \in Runs : ScenarioRunStep(r)

ScenarioSpec == Init /\ [][ScenarioNext]_vars

\* the background run is scheduled fairly
ScenarioFairSpec == ScenarioSpec /\ \A r \in Runs : WF_vars(ScenarioRunStep(r))

\* ------------------------------------------- the library called directly
\* customer_manager.add_customer(Customer(phone=phone, status=status, notes=notes))
AddCustomerCall(phone, status, notes) ==
    /\ db' = AddCustomerStore(db, phone, status, notes, now)
    /\ call' = [op |-> "add_customer", phone |-> phone, status |-> status,
                notes |-> notes, value |-> AddCustomerOk(db, phone)]
    /\ UNCHANGED <<call_history, current_campaign, campaign_results, task, nstarted, stopSeen,
                   response, now>>

\* customer_manager.update_customer_status(phone, status, notes): the UPDATE
\* raises nothing when no row has the phone, and the method returns True
UpdateCustomerStatusCall(phone, status, notes) ==
    /\ db' = UpdateCustomerStatus(db, phone, status, notes, now)
    /\ call' = [op |-> "update_customer_status", phone |-> phone, status |-> status,
                notes |-> notes, value |-> TRUE]
    /\ UNCHANGED <<call_history, current_campaign, campaign_results, task, nstarted, stopSeen,
                   response, now>>

\* customer_manager.get_calling_queue(max_calls, prioritize_by)
GetCallingQueueCall(max_calls, prioritize_by) ==
    /\ call' = [op |-> "get_calling_queue", max_calls |-> max_calls,
                prioritize_by |-> prioritize_by,
                value |-> GetCallingQueue(db, max_calls, prioritize_by)]
    /\ UNCHANGED <<call_history, db, current_campaign, campaign_results, task, nstarted, stopSeen,
                   response, now>>

\* time passes
ClockTick ==
    /\ now < MaxTime
    /\ now' = now + 1
    /\ UNCHANGED <<call_history, db, current_campaign, campaign_results, task, nstarted, stopSeen,
                   response, call>>

\* the record store under its two writers, with time passing
StoreNext ==
    \/ \E phone \in Phones, notes \in Notes : AddCustomerCall(phone, "new", notes)
    \/ \E phone \in Phones, status \in {"interested", "do_not_call"}, notes \in Notes :
          UpdateCustomerStatusCall(phone, status, notes)
    \/ ClockTick

StoreSpec == Init /\ [][StoreNext]_vars

\* the queue builder over every store the two writers can produce
QueueNext ==
    \/ \E phone \in Phones, status \in Statuses : AddCustomerCall(phone, status, "")
    \/ \E phone \in Phones, status \in Statuses :
          UpdateCustomerStatusCall(phone, status, "")
    \/ \E max_calls \in 0..MaxCalls, prioritize_by \in Statuses :
          GetCallingQueueCall(max_calls, prioritize_by)

QueueSpec == Init /\ [][QueueNext]_vars

\* --------------------------------------------------------- sales_agent.py
\* A text is the sequence of its characters.
UpperCase == <<"A", "B", "C", "D", "E", "F", "G", "H", "I", "J", "K", "L", "M",
               "N", "O", "P", "Q", "R", "S", "T", "U", "V", "W", "X", "Y", "Z">>
LowerCase == <<"a", "b", "c", "d", "e", "f", "g", "h", "i", "j", "k", "l", "m",
               "n", "o", "p", "q", "r", "s", "t", "u", "v", "w", "x", "y", "z">>

\* str.lower() on one character, and on a text
LowerChar(ch) ==
    IF \E k \in 1..Len(UpperCase) : UpperCase[k] = ch
    THEN LowerCase[CHOOSE k \in 1..Len(UpperCase) : UpperCase[k] = ch]
    ELSE ch

LowerText(text) == [k \in 1..Len(text) |-> LowerChar(text[k])]

\* "word in text" for two strings: word is a substring of text
WordIn(word, text) ==
    \E start \in 1..(Len(text) - Len(word) + 1) :
        SubSeq(text, start, start + Len(word) - 1) = word

\* any(word in text for word in words)
AnyWordIn(words, text) == \E word \in words : WordIn(word, text)

\* ["sample", "try", "interested", "yes"]
PositiveWords ==
    {<<"s", "a", "m", "p", "l", "e">>,
     <<"t", "r", "y">>,
     <<"i", "n", "t", "e", "r", "e", "s", "t", "e", "d">>,
     <<"y", "e", "s">>}
\* ["not interested", "no", "busy"]
DeclineWords ==
    {<<"n", "o", "t", " ", "i", "n", "t", "e", "r", "e", "s", "t", "e", "d">>,
     <<"n", "o">>,
     <<"b", "u", "s", "y">>}
\* ["callback", "call back", "later"]
DeferralWords ==
    {<<"c", "a", "l", "l", "b", "a", "c", "k">>,
     <<"c", "a", "l", "l", " ", "b", "a", "c", "k">>,
     <<"l", "a", "t", "e", "r">>}

\* the value simulate_ai_conversation returns for an outcome
Classified(outcome) == [outcome |-> outcome, notes |-> NotesFor(outcome)]

\* a classifier that looks for a decline before it looks for an acceptance
SimulateOutcome_DeclineFirst(ai_response) ==
    LET lower == LowerText(ai_response)
    IN  IF AnyWordIn(DeclineWords, lower) THEN Classified("not_interested")
        ELSE IF AnyWordIn(PositiveWords, lower) THEN Classified("sample_requested")
        ELSE IF AnyWordIn(DeferralWords, lower) THEN Classified("callback")
        ELSE Classified("interested")

\* simulate_ai_conversation: "Simulate different outcomes based on keywords in
\* response"
SimulateOutcome(ai_response) ==
    LET lower == LowerText(ai_response)
    IN  IF AnyWordIn(PositiveWords, lower) THEN Classified("sample_requested")
        ELSE IF AnyWordIn(DeclineWords, lower) THEN Classified("not_interested")
        ELSE IF AnyWordIn(DeferralWords, lower) THEN Classified("callback")
        ELSE Classified("interested")

\* replies the conversation can come back with are made of these phrases
Phrases ==
    {
    \* Yes please
    <<"Y", "e", "s", " ", "p", "l", "e", "a", "s", "e">>,
    \* I'd love a free sample
    <<"I", "'", "d", " ", "l", "o", "v", "e", " ", "a", " ", "f", "r", "e",
      "e", " ", "s", "a", "m", "p", "l", "e">>,
    \* Let me try it
    <<"L", "e", "t", " ", "m", "e", " ", "t", "r", "y", " ", "i", "t">>,
    \* No thanks
    <<"N", "o", " ", "t", "h", "a", "n", "k", "s">>,
    \* not interested
    <<"n", "o", "t", " ", "i", "n", "t", "e", "r", "e", "s", "t", "e", "d">>,
    \* I'm busy
    <<"I", "'", "m", " ", "b", "u", "s", "y">>,
    \* Call me back
    <<"C", "a", "l", "l", " ", "m", "e", " ", "b", "a", "c", "k">>,
    \* call back later
    <<"c", "a", "l", "l", " ", "b", "a", "c", "k", " ", "l", "a", "t", "e",
      "r">>,
    \* Sounds fine
    <<"S", "o", "u", "n", "d", "s", " ", "f", "i", "n", "e">>,
    \* next week
    <<"n", "e", "x", "t", " ", "w", "e", "e", "k">> }

\* the phrases among them that only decline
DeclinePhrases ==
    {
    \* No thanks
    <<"N", "o", " ", "t", "h", "a", "n", "k", "s">>,
    \* not interested
    <<"n", "o", "t", " ", "i", "n", "t", "e", "r", "e", "s", "t", "e", "d">>,
    \* I'm busy
    <<"I", "'", "m", " ", "b", "u", "s", "y">> }

\* the declining reply the design document classifies by hand:
\* No thanks, not interested, I'm busy
DeclineReply ==
    <<"N", "o", " ", "t", "h", "a", "n", "k", "s", ",", " ", "n", "o", "t",
      " ", "i", "n", "t", "e", "r", "e", "s", "t", "e", "d", ",", " ", "I",
      "'", "m", " ", "b", "u", "s", "y">>

\* the deferring reply the design document classifies by hand:
\* Call me back next week
CallbackReply ==
    <<"C", "a", "l", "l", " ", "m", "e", " ", "b", "a", "c", "k", " ", "n",
      "e", "x", "t", " ", "w", "e", "e", "k">>

\* the replies the design document classifies by hand
DocumentedReplies ==
    {
    \* I'd love a free sample, that sounds great
    <<"I", "'", "d", " ", "l", "o", "v", "e", " ", "a", " ", "f", "r", "e",
      "e", " ", "s", "a", "m", "p", "l", "e", ",", " ", "t", "h", "a", "t",
      " ", "s", "o", "u", "n", "d", "s", " ", "g", "r", "e", "a", "t">>,
    \* No thanks, not interested, I'm busy
    <<"N", "o", " ", "t", "h", "a", "n", "k", "s", ",", " ", "n", "o", "t",
      " ", "i", "n", "t", "e", "r", "e", "s", "t", "e", "d", ",", " ", "I",
      "'", "m", " ", "b", "u", "s", "y">>,
    \* Call me back next week
    <<"C", "a", "l", "l", " ", "m", "e", " ", "b", "a", "c", "k", " ", "n",
      "e", "x", "t", " ", "w", "e", "e", "k">>,
    \* Sounds fine
    <<"S", "o", "u", "n", "d", "s", " ", "f", "i", "n", "e">> }

\* ", " between two phrases
Separator == <<",", " ">>

\* the texts of 1..n phrases taken from P
RECURSIVE Joined(_, _)
Joined(P, n) ==
    IF n <= 1 THEN P
    ELSE LET shorter == Joined(P, n - 1)
         IN  shorter \cup {a \o Separator \o b : a \in shorter, b \in P}

Texts == Joined(Phrases, MaxPhrases) \cup DocumentedReplies

\* the classifier's value for each of the replies
OutcomeOf == [text \in Texts |-> SimulateOutcome(text)]

\* the classifier applied to a reply
SimulateConversationCall(ai_response) ==
    /\ call' = [op |-> "simulate_ai_conversation", ai_response |-> ai_response,
                value |-> OutcomeOf[ai_response]]
    /\ UNCHANGED <<call_history, db, current_campaign, campaign_results, task, nstarted, stopSeen,
                   response, now>>

ClassifyNext == \E ai_response \in Texts : SimulateConversationCall(ai_response)

ClassifySpec == Init /\ [][ClassifyNext]_vars

\* ------------------------------------------------------------- claims
\* the snapshot GET /api/campaign/status returns in the current state
Status == GetCampaignStatus(current_campaign)

\* the runs that are inside their processing loop
InLoop == {r \in Runs : task[r].pc \in {"calling", "sleeping"}}

\* no stop() has reached a running campaign
NoStop == \A r \in Runs : ~stopSeen[r]

\* what every step of the start handler does: it answers, and it leaves the
\* runs alone unless it schedules one
StartShaped ==
    /\ response'.op = "start"
    /\ (task' = task \/ nstarted' # nstarted)

\* a step of the start handler
StartStep ==
    /\ StartShaped
    /\ \E max_calls \in 0..MaxCalls, prioritize_by \in PriorityKeys, d \in 0..MaxDelay :
          StartCampaign(max_calls, prioritize_by, d)

RejectedAlreadyRunning == BadRequest("start", "Campaign already running")

\* C1: in every reachable state at most one background campaign run is still
\* inside its processing loop.
OnlyOneRunActive == Cardinality(InLoop) <= 1

\* C2: in every reachable state the snapshot returned by status satisfies
\* 0 <= completed <= total.
CompletedWithinTotal == 0 <= Status.completed /\ Status.completed <= Status.total

\* C3: once stop() was called on a running campaign, the background run of
\* that campaign begins no new contact attempt.
NoAttemptAfterStop ==
    [][\A r \in Runs :
          stopSeen[r] =>
              ~(/\ task'[r].pc = "calling"
                /\ (task[r].pc # "calling" \/ task'[r].i # task[r].i))]_vars

\* C4: a start handled while the running flag is true is rejected with
\* "Campaign already running" (400) and changes neither the current campaign,
\* nor the results list, nor the scheduled runs, nor the store.
StartWhileRunningRejected ==
    [][(Status.running /\ StartStep) =>
          /\ response' = RejectedAlreadyRunning
          /\ UNCHANGED <<db, current_campaign, campaign_results, task, nstarted>>]_vars

StartWhileRunningRejectedWitness ==
    /\ response = RejectedAlreadyRunning
    /\ Status.running
    /\ task[1].pc = "sleeping"

\* C5: the check of the flag and the creation of the campaign are one step of
\* the start handler: a start is accepted only in a state whose flag is false,
\* it leaves the flag true and schedules exactly one run, and a start handled
\* while the flag is true is rejected with AlreadyRunning; so of start requests
\* handled one after the other at most one is accepted.
StartCheckAndSetAtomic ==
    [][StartStep =>
          /\ Status.running => (response' = RejectedAlreadyRunning /\ nstarted' = nstarted)
          /\ nstarted' # nstarted =>
                /\ ~Status.running
                /\ nstarted' = nstarted + 1
                /\ current_campaign'.running
                /\ task'[nstarted'].pc = "scheduled"
                /\ \A r \in Runs \ {nstarted'} : task'[r] = task[r]]_vars

StartCheckAndSetAtomicWitness ==
    /\ nstarted = 1
    /\ task[1].pc = "scheduled"
    /\ response = RejectedAlreadyRunning

\* C6: between one accepted start and the next, the value of completed
\* reported by status never decreases.
CompletedNeverDecreases ==
    [][nstarted' = nstarted =>
          GetCampaignStatus(current_campaign').completed >= Status.completed]_vars

\* C7: a stop() issued while the run is suspended in the inter-attempt delay
\* interrupts the delay: the run waits out no further tick of it.
StopInterruptsDelay ==
    [][\A r \in Runs :
          (stopSeen[r] /\ task[r].pc = "sleeping") =>
              task'[r].remaining >= task[r].remaining]_vars

\* C8: under fair scheduling every scheduled run eventually returns, and the
\* step in which it returns leaves running = false and end_time recorded.
EveryRunTerminates ==
    /\ \A r \in Runs : (task[r].pc = "scheduled") ~> (task[r].pc = "done")
    /\ [][\A r \in Runs :
             (task[r].pc # "done" /\ task'[r].pc = "done") =>
                 (~current_campaign'.running /\ current_campaign'.end_time = Recorded)]_vars

EveryRunTerminatesWitness ==
    /\ task[1].pc = "done"
    /\ stopSeen[1]
    /\ nstarted = 1
    /\ ~current_campaign.running
    /\ current_campaign.end_time = Recorded
    /\ current_campaign.completed < current_campaign.total

\* C9: stop() always answers 200; with no campaign ever started it leaves
\* current_campaign None and the status snapshot idle; a second stop() applied
\* to the state a stop() left changes nothing; stop() touches nothing but the
\* running flag.
StopIdempotent ==
    [][StopCampaign =>
          /\ response'.status = 200
          /\ current_campaign = None =>
                (current_campaign' = None
                 /\ GetCampaignStatus(current_campaign') = IdleSnapshot)
          /\ StopCampaignDict(current_campaign') = current_campaign'
          /\ ~GetCampaignStatus(current_campaign').running
          /\ UNCHANGED <<db, campaign_results, task, nstarted>>]_vars

StopIdempotentWitness ==
    /\ response = Ok("stop", "Campaign stopped")
    /\ current_campaign = None
    /\ Status = IdleSnapshot

\* C10: as long as no stop is requested, a run ends only by completing the
\* attempt at the last queue position, and it visits the positions one by one:
\* a failed attempt at position i does not keep any later position from being
\* attempted.
FailureDoesNotAbort ==
    [][\A r \in Runs :
          (NoStop' /\ task[r].pc \in {"scheduled", "calling", "sleeping"}) =>
              /\ task'[r].pc = "done" =>
                    (task[r].pc = "calling" /\ task[r].i = Len(task[r].customers) - 1)
              /\ task'[r].i \in {task[r].i, task[r].i + 1}]_vars

FailureDoesNotAbortWitness ==
    /\ NoStop
    /\ task[1].pc = "calling"
    /\ task[1].i = 1
    /\ Len(campaign_results) = 1
    /\ campaign_results[1].outcome = "error"

\* the attempts of run r that have returned
Attempted(r) ==
    IF task[r].pc = "sleeping" THEN task[r].i + 1 ELSE task[r].i

\* C11: every contact attempt that ends, failed ones included, adds exactly one
\* entry to the results list, the entry of the customer attempted; the entry of
\* a failed attempt has outcome error; and while a single campaign has been
\* started the list has one entry per attempt made.
EveryAttemptRecorded ==
    /\ [][\A r \in Runs :
             /\ (task[r].pc = "calling" /\ task'[r] # task[r]) =>
                   /\ Len(campaign_results') = Len(campaign_results) + 1
                   /\ SubSeq(campaign_results', 1, Len(campaign_results)) = campaign_results
                   /\ campaign_results'[Len(campaign_results')].phone =
                         task[r].customers[task[r].i + 1].phone
             /\ AttemptReturn(r, "error") =>
                   campaign_results'[Len(campaign_results) + 1].outcome = "error"]_vars
    /\ [](nstarted = 1 => Len(campaign_results) = Attempted(1))

EveryAttemptRecordedWitness ==
    /\ nstarted = 1
    /\ task[1].pc = "done"
    /\ Len(campaign_results) = 2
    /\ campaign_results[1].outcome = "error"
    /\ campaign_results[2].outcome = "sample_requested"

\* the queue builder has just returned
QueueBuilt == call.op = "get_calling_queue"

\* the first n elements of s, all of s if it has fewer
FirstN(s, n) == SubSeq(s, 1, IF n < Len(s) THEN n ELSE Len(s))

\* the customers of the store with one of these statuses, in store order
WithStatus(S) == SelectSeq(db, LAMBDA c : c.status \in S)

\* C12: no customer whose stored status is do_not_call is in the sequence the
\* queue builder returns, whatever the priority key (do_not_call included) and
\* the maximum size.
NoDoNotCallInQueue ==
    QueueBuilt => \A k \in 1..Len(call.value) : call.value[k].status # "do_not_call"

\* C13: with the default key the queue is all new customers in store order,
\* then all interested ones in store order, then all callback_requested ones in
\* store order, cut to its first max_calls elements; no other status is in it.
DefaultQueueOrder ==
    (QueueBuilt /\ call.prioritize_by = "new") =>
        /\ call.value = FirstN(WithStatus({"new"}) \o WithStatus({"interested"})
                                   \o WithStatus({"callback_requested"}),
                               call.max_calls)
        /\ \A k \in 1..Len(call.value) :
              call.value[k].status \in {"new", "interested", "callback_requested"}

DefaultQueueOrderWitness ==
    /\ QueueBuilt
    /\ call.prioritize_by = "new"
    /\ Len(db) = 2
    /\ db[1].status = "interested"
    /\ db[2].status = "new"
    /\ call.value = <<db[2], db[1]>>

\* C14: with any other key the queue is the customers whose status equals the
\* key, in store order, cut to its first max_calls elements.
OtherKeyIsStatusFilter ==
    (QueueBuilt /\ call.prioritize_by # "new") =>
        call.value = FirstN(WithStatus({call.prioritize_by}), call.max_calls)

OtherKeyIsStatusFilterWitness ==
    /\ QueueBuilt
    /\ call.prioritize_by = "interested"
    /\ call.max_calls = 1
    /\ Len(db) = 2
    /\ db[1].status = "interested"
    /\ db[2].status = "interested"
    /\ call.value = <<db[1]>>

RejectedEmptyQueue == BadRequest("start", "No customers found to call")

\* C15: when no customer is eligible the queue builder returns the empty
\* sequence, and a start handled then (no campaign running) is rejected with
\* "No customers found to call" (400): it leaves the current campaign, the
\* results list and the store as they were and schedules no run.  (Stated from
\* the other end: a start step that does anything else is not a start whose
\* queue is empty.)
EmptyQueueRejected ==
    [][(/\ StartShaped
        /\ ~Status.running
        /\ ~(/\ response' = RejectedEmptyQueue
             /\ UNCHANGED <<db, current_campaign, campaign_results, task, nstarted>>)) =>
          \A max_calls \in 0..MaxCalls, prioritize_by \in PriorityKeys :
             GetCallingQueue(db, max_calls, prioritize_by) = <<>> =>
                \A d \in 0..MaxDelay : ~StartCampaign(max_calls, prioritize_by, d)]_vars

EmptyQueueRejectedWitness ==
    /\ response = RejectedEmptyQueue
    /\ Len(db) = 1
    /\ db[1].status = "not_interested"
    /\ nstarted = 1
    /\ task[1].pc = "done"
    /\ Len(campaign_results) = 1

\* C16: registering a phone the store already holds fails (add_customer
\* returns False) and leaves the store unchanged; the store holds at most one
\* record per phone, and the record of a phone stays the one registered first.
OneRecordPerPhone ==
    /\ [](\A j, k \in 1..Len(db) : db[j].phone = db[k].phone => j = k)
    /\ [][/\ \A phone \in Phones, notes \in Notes :
               (HasPhone(db, phone) /\ AddCustomerCall(phone, "new", notes)) =>
                   (call'.value = FALSE /\ db' = db)
           /\ Len(db') >= Len(db)
           /\ \A k \in 1..Len(db) :
                 /\ db'[k].phone = db[k].phone
                 /\ db'[k].created_at = db[k].created_at]_vars

OneRecordPerPhoneWitness ==
    /\ call.op = "add_customer"
    /\ call.value = FALSE
    /\ Len(db) = 1
    /\ db[1].phone = call.phone
    /\ db[1].notes # call.notes
    /\ db[1].created_at < now

\* C17: update_customer_status for a phone the store does not hold fails (it
\* does not report success) and leaves every record unchanged.
UnknownPhoneUpdateFails ==
    [][\A phone \in Phones, status \in Statuses, notes \in Notes :
          (~HasPhone(db, phone) /\ UpdateCustomerStatusCall(phone, status, notes)) =>
              (call'.value = FALSE /\ db' = db)]_vars

\* C18: update_customer_status for a phone the store holds sets that record's
\* status and notes to the arguments and its last_contact and updated_at both
\* to the current time, and leaves its phone, its created_at and every other
\* record as they were; so in every state each record's last_contact is null or
\* equal to its updated_at.
UpdateStampsContact ==
    /\ [][\A phone \in Phones, status \in Statuses, notes \in Notes :
             (HasPhone(db, phone) /\ UpdateCustomerStatusCall(phone, status, notes)) =>
                 /\ Len(db') = Len(db)
                 /\ \A k \in 1..Len(db) :
                       IF db[k].phone = phone
                       THEN db'[k] = [phone |-> phone, status |-> status, notes |-> notes,
                                      last_contact |-> now, updated_at |-> now,
                                      created_at |-> db[k].created_at]
                       ELSE db'[k] = db[k]]_vars
    /\ [](\A k \in 1..Len(db) :
             db[k].last_contact = NullTime \/ db[k].last_contact = db[k].updated_at)

UpdateStampsContactWitness ==
    /\ call.op = "update_customer_status"
    /\ Len(db) = 2
    /\ db[1].phone = call.phone
    /\ db[1].status = "do_not_call"
    /\ db[1].notes = call.notes
    /\ db[1].last_contact = db[1].updated_at
    /\ db[1].updated_at > db[1].created_at
    /\ db[2].last_contact = NullTime

\* the classifier has just returned
Replied == call.op = "simulate_ai_conversation"

\* word occurs in text at some offset, character by character
Occurs(word, text) ==
    \E offset \in 0..(Len(text) - Len(word)) :
        \A j \in 1..Len(word) : text[offset + j] = word[j]

\* the keyword sets in the order they are tried, and the outcome of each
KeywordSets == <<PositiveWords, DeclineWords, DeferralWords>>
SetOutcome == <<"sample_requested", "not_interested", "callback">>

\* the keyword sets of which some word occurs in the lowercased text
Matching(text) ==
    {k \in 1..Len(KeywordSets) : \E word \in KeywordSets[k] : Occurs(word, LowerText(text))}

Least(S) == CHOOSE k \in S : \A j \in S : k <= j

\* C19: the classifier returns the outcome of the first keyword set that
\* matches the lowercased text (acceptance, then decline, then deferral) and
\* interested when none matches, with the notes of that outcome; the same text
\* is always given the same outcome and notes.
FirstMatchingSetWins ==
    /\ [](Replied =>
            /\ call.value.outcome =
                  IF Matching(call.ai_response) = {} THEN "interested"
                  ELSE SetOutcome[Least(Matching(call.ai_response))]
            /\ call.value.notes = NotesFor(call.value.outcome))
    /\ [][(Replied /\ Replied' /\ call'.ai_response = call.ai_response) =>
             call'.value = call.value]_vars

FirstMatchingSetWinsWitness ==
    /\ Replied
    /\ Matching(call.ai_response) = {2, 3}
    /\ call.value.outcome = "not_interested"

\* C20: the reply "No thanks, not interested, I'm busy" is classified
\* not_interested, and so is every reply made only of declining phrases.
DeclineIsNotInterested ==
    (Replied /\ call.ai_response \in Joined(DeclinePhrases, MaxPhrases) \cup {DeclineReply}) =>
        call.value.outcome = "not_interested"

\* C21: the reply "Call me back next week" is classified callback.
CallMeBackIsCallback ==
    (Replied /\ call.ai_response = CallbackReply) => call.value.outcome = "callback"

CompletedCountsOwnAttempts ==
    [][\A r \in Runs :
          (/\ task[r].pc # "done"
           /\ task'[r].pc = "done"
           /\ current_campaign.start_time = r) =>
              current_campaign'.completed = task'[r].i]_vars

\* an attempt of run r ends in this step
AttemptEnds(r) == task[r].pc = "calling" /\ task'[r] # task[r]

\* the row of the store with this phone
RowOf(store, phone) == store[CHOOSE k \in 1..Len(store) : store[k].phone = phone]

\* C24: an attempt that returns a result sets the stored status of the
\* attempted customer by the mapping sample_requested -> interested,
\* not_interested -> not_interested, any other outcome -> contacted, and changes
\* the status of no other customer.
StatusFollowsOutcome ==
    [][\A r \in Runs :
          AttemptEnds(r) =>
              LET phone == task[r].customers[task[r].i + 1].phone
                  outcome == campaign_results'[Len(campaign_results')].outcome
              IN  /\ Len(db') = Len(db)
                  /\ \A k \in 1..Len(db) :
                        db'[k].status =
                           IF db[k].phone # phone THEN db[k].status
                           ELSE CASE outcome = "sample_requested" -> "interested"
                                  [] outcome = "not_interested" -> "not_interested"
                                  [] outcome \in {"interested", "callback", "error"} ->
                                        "contacted"]_vars

StatusFollowsOutcomeWitness ==
    /\ Len(db) = 2
    /\ Len(campaign_results) = 2
    /\ campaign_results[1].outcome = "interested"
    /\ campaign_results[2].outcome = "sample_requested"
    /\ RowOf(db, campaign_results[1].phone).status = "contacted"
    /\ RowOf(db, campaign_results[2].phone).status = "interested"

\* the attempts made so far by the runs 1..n
RECURSIVE AttemptsUpTo(_)
AttemptsUpTo(n) == IF n = 0 THEN 0 ELSE Attempted(n) + AttemptsUpTo(n - 1)

\* C25: the call history holds exactly one record per contact attempt made by
\* all runs so far, and no step changes or removes a record it already holds.
HistoryAppendOnly ==
    /\ [](Len(call_history) = AttemptsUpTo(MaxCampaigns))
    /\ [][/\ Len(call_history') >= Len(call_history)
           /\ SubSeq(call_history', 1, Len(call_history)) = call_history]_vars

HistoryAppendOnlyWitness ==
    /\ nstarted = 2
    /\ Len(call_history) = 3
    /\ Len(campaign_results) = 1
    /\ call_history[1].customer_phone = call_history[3].customer_phone
    /\ call_history[1].outcome = "sample_requested"
    /\ call_history[3].outcome = "error"

\* C26: a step of a background run clears the running flag or records
\* end_time only on the campaign that run was started for; a run started for
\* an earlier campaign does neither to a campaign started later.
OnlyOwnRunEndsCampaign ==
    [][\A r \in Runs :
          (/\ task'[r] # task[r]
           /\ task[r].pc \in {"scheduled", "calling", "sleeping"}
           /\ \/ current_campaign.running /\ ~current_campaign'.running
              \/ current_campaign'.end_time # current_campaign.end_time) =>
              current_campaign.start_time = r]_vars

\* the phones of the customers a start with the default key would queue
DefaultQueuePhones ==
    LET queue == GetCallingQueue(db, Len(db), "new")
    IN  {queue[k].phone : k \in 1..Len(queue)}

\* C27: once an attempt on a customer has ended with outcome not_interested, no
\* start handled afterwards with the default priority key puts that customer
\* into its queue.
NotInterestedStaysOut ==
    \A k \in 1..Len(call_history) :
        call_history[k].outcome = "not_interested" =>
            call_history[k].customer_phone \notin DefaultQueuePhones

\* C28: whenever no contact attempt is in progress, the completed count of the
\* current campaign equals the number of entries of the results list.
CompletedMatchesResults ==
    (\A r \in Runs : task[r].pc # "calling") =>
        Status.completed = Len(campaign_results)

\* the statuses a campaign stores
CampaignStatuses == {"interested", "not_interested", "contacted"}

\* C29: a campaign never sets a status to new, callback_requested, sold or
\* do_not_call: whenever a stored status changes, and after every attempt for
\* the attempted customer, the status is one of interested, not_interested,
\* contacted; so no customer is ever selected by the key callback_requested.
CampaignStoresThreeStatuses ==
    /\ [][/\ \A k \in 1..Len(db) :
                 db'[k].status # db[k].status => db'[k].status \in CampaignStatuses
           /\ \A r \in Runs :
                 AttemptEnds(r) =>
                    RowOf(db', task[r].customers[task[r].i + 1].phone).status
                       \in CampaignStatuses]_vars
    /\ [](GetCallingQueue(db, Len(db), "callback_requested") = <<>>)

CampaignStoresThreeStatusesWitness ==
    /\ Len(call_history) = 1
    /\ call_history[1].outcome = "callback"
    /\ RowOf(db, call_history[1].customer_phone).status = "contacted"
    /\ RowOf(db, call_history[1].customer_phone).notes = "Customer requested callback"

\* no phone is at two positions of the queue
DistinctPhones(queue) ==
    \A j, k \in 1..Len(queue) : queue[j].phone = queue[k].phone => j = k

\* C30: a queue the queue builder returns holds each phone at most once,
\* whatever the store, the key and the maximum size; so the queue a run was
\* given holds each phone once, and the run makes its attempts at the queue
\* positions in order, one attempt per position.
EachPhoneOnceInQueue ==
    /\ [](QueueBuilt => DistinctPhones(call.value))
    /\ [](\A r \in Runs : DistinctPhones(task[r].customers))
    /\ [][\A r \in Runs :
             (task'[r].pc = "calling" /\ task'[r] # task[r]) =>
                 task'[r].i = IF task[r].pc = "scheduled" THEN 0 ELSE task[r].i + 1]_vars

EachPhoneOnceInQueueWitness ==
    /\ QueueBuilt
    /\ call.prioritize_by = "new"
    /\ Len(call.value) = 2
    /\ call.value[1].phone # call.value[2].phone
    /\ call.value[1].status = "interested"
    /\ call.value[2].status = "callback_requested"

====
